---------------------------- MODULE Spec2Model ----------------------------
(***************************************************************************)
(* A model of the SHELF loader of src/src/main.rs: main, process_elf,      *)
(* get_initial_stack, setup_auxv and exec_shelf.                           *)
(*                                                                         *)
(* The loader owns two pieces of memory.  The initial process stack frame  *)
(* is a sequence of 8-byte words, mem, whose first word (the argc cell)    *)
(* lies at byte address StackBase; the strings the argv and envp pointers  *)
(* address lie above the frame, as the layout quoted in get_initial_stack  *)
(* says.  The mapped image is a sequence of bytes, image, whose first byte *)
(* lies at the address mmap returned.  Addresses are written as signed     *)
(* 64-bit numbers, so MAP_FAILED, (void * ) -1, is -1.                     *)
(*                                                                         *)
(* process_elf is cut into steps at the program counter pc; status says    *)
(* whether the process is still running that step or ended in it.          *)
(***************************************************************************)
EXTENDS Integers, Sequences, FiniteSets, TLC

VARIABLES
    elf,        \* the parsed descriptor: program_headers, header.e_phoff, entry
    frame,      \* how the initial stack was built: argc, #env, auxv keys, and
                \* whether the argument strings lie in the lowest page
    mem,        \* the words of the initial stack frame, mem[1] at StackBase
    pc,         \* the step of main / process_elf that runs next (or ended the run)
    status,     \* "running" | "exited" | "panicked" | "faulted" | "transferred"
    diag,       \* the diagnostic of an exit or a panic
    load_phdr,  \* Option<&ProgramHeader>: <<>> or <<h>>
    phdrs,      \* Vec<ProgramHeader>: the TLS and DYNAMIC headers, in file order
    mmapReq,    \* the mmap request made: <<>> or <<[len, prot]>>
    mapping,    \* what mmap returned: <<>> or <<address>>
    image,      \* the bytes of the anonymous region (empty when there is none)
    writes,     \* the byte ranges process_elf wrote at, as offsets from mapping
    entry,      \* mapping.add(elf.entry)
    phdrs_ptr,  \* dst_phdrs_ptr = mapping.add(elf.header.e_phoff)
    phnum,      \* phdrs.len()
    stack,      \* the Stack of get_initial_stack: <<>> or <<record>>
    regs        \* rsp and the jump target at the transfer: <<>> or <<[rsp, rip]>>

vars == <<elf, frame, mem, pc, status, diag, load_phdr, phdrs, mmapReq, mapping,
          image, writes, entry, phdrs_ptr, phnum, stack, regs>>

---------------------------------------------------------------------------
(* Program constants.                                                      *)

AT_NULL == 0
AT_PHDR == 3
AT_PHENT == 4
AT_PHNUM == 5
AT_BASE == 7
AT_ENTRY == 9
\* A key setup_auxv does not recognise (the `_ => ()` arm); AT_PAGESZ on Linux.
AT_PAGESZ == 6

\* goblin::elf::program_header: the header types process_elf tells apart.
PT_LOAD == 1
PT_DYNAMIC == 2
PT_TLS == 7
\* PT_GNU_STACK, 0x6474e551: one of the types that fall in the `_ => ()` arm.
PT_GNU_STACK == 1685382481

\* The segment permission bits of p_flags (ELF) ...
PF_X == 1
PF_W == 2
PF_R == 4
\* ... and the protection bits mmap reads its third argument as (libc).
PROT_READ == 1
PROT_WRITE == 2
PROT_EXEC == 4

\* goblin::elf::program_header::program_header64::SIZEOF_PHDR
SIZEOF_PHDR == 56
\* size_of::<usize>() == size_of::<*const c_char>() on x86-64
WordSize == 8
\* (void * ) -1
MAP_FAILED == -1

---------------------------------------------------------------------------
(* Bounds of the model.                                                    *)

MaxArgs == 3
MaxEnv == 1
MaxAux == 2
MaxPhdrs == 2

---------------------------------------------------------------------------
(* The environment: where the kernel puts things.                          *)

\* The address of the argc cell at process entry; 16-byte aligned (x86-64 ABI).
StackBase == 28672
\* The page-aligned address a successful mmap returns.
MapBase == 4096
\* The bytes of the file process_elf is given as raw_file.
raw_file == <<17, 34, 51>>

Bit(x, b) == (x \div b) % 2 = 1

Hdr(t, fl, off, va, fsz, msz) ==
    [p_type |-> t, p_flags |-> fl, p_offset |-> off, p_vaddr |-> va,
     p_filesz |-> fsz, p_memsz |-> msz]

\* LOAD headers: every permission combination on one sound geometry, and
\* every geometry (sound or not: nothing validates a header) on rwx.
LoadHdrs ==
    {Hdr(PT_LOAD, f, 0, 0, 2, 64) : f \in 0..7}
    \cup {Hdr(PT_LOAD, 7, off, va, sz[1], sz[2]) :
            off \in {0, 2}, va \in {0, 8}, sz \in {<<0, 0>>, <<2, 64>>, <<2, 0>>}}

OtherHdrs ==
    {Hdr(PT_DYNAMIC, 6, 0, 0, 0, 0), Hdr(PT_TLS, 4, 0, 0, 0, 0),
     Hdr(PT_GNU_STACK, 6, 0, 0, 0, 0)}

SeqsUpTo(S, n) == UNION {[1..k -> S] : k \in 0..n}

Elf(hs, phoff, e) == [program_headers |-> hs, e_phoff |-> phoff, entry |-> e]

\* Every descriptor of up to MaxPhdrs headers.
RichElfs ==
    {Elf(hs, po, e) : hs \in SeqsUpTo(LoadHdrs \cup OtherHdrs, MaxPhdrs),
                      po \in {0, 64}, e \in {0, 9}}

\* A few descriptors, one per way process_elf can go.
FewElfs ==
    {Elf(<<Hdr(PT_LOAD, 7, 0, 0, 2, 64), Hdr(PT_DYNAMIC, 6, 0, 0, 0, 0)>>, 0, 9),
     Elf(<<Hdr(PT_LOAD, 7, 0, 0, 2, 64), Hdr(PT_GNU_STACK, 6, 0, 0, 0, 0)>>, 64, 9),
     Elf(<<Hdr(PT_LOAD, 5, 0, 0, 2, 64)>>, 64, 0),
     Elf(<<Hdr(PT_LOAD, 7, 2, 0, 2, 64)>>, 64, 0),
     Elf(<<Hdr(PT_LOAD, 7, 0, 0, 0, 0)>>, 0, 0),
     Elf(<<Hdr(PT_DYNAMIC, 6, 0, 0, 0, 0)>>, 64, 9)}

---------------------------------------------------------------------------
(* The initial stack frame, as the kernel lays it out.                     *)

AuxKeys == {AT_PHDR, AT_PHENT, AT_PHNUM, AT_PAGESZ, AT_BASE, AT_ENTRY}

Frame(n, ne, aux, low) == [n |-> n, nenv |-> ne, aux |-> aux, low |-> low]

\* Words in the frame: argc, argv[0..n-1], NULL, envp[0..ne-1], NULL,
\* the auxv pairs, the AT_NULL pair.
FrameWords(f) == 1 + f.n + 1 + f.nenv + 1 + 2 * (Len(f.aux) + 1)

\* The first byte above the frame, where the kernel puts the strings.
StrBase(f) == StackBase + WordSize * FrameWords(f)
\* The first address of argument strings "placed in a very low page".
LowBase == 1
\* argv[i-1]: the address of the i-th argument string (never NULL).
ArgPtr(f, i) == IF f.low THEN LowBase + (i - 1) ELSE StrBase(f) + 4 * (i - 1)
\* envp[j-1]
EnvPtr(f, j) == StrBase(f) + 4 * (f.n + j - 1)
\* The value the kernel gave auxv entry i.
OldAuxValue(i) == 7000 + i

BuildMem(f) ==
    [w \in 1..FrameWords(f) |->
        LET a == w - 1                   \* words above the argc cell
            e == a - (f.n + 2)           \* words above envp[0]
            x == e - (f.nenv + 1)        \* words above auxv[0]
        IN  IF a = 0 THEN f.n
            ELSE IF a <= f.n THEN ArgPtr(f, a)
            ELSE IF a = f.n + 1 THEN 0
            ELSE IF e < f.nenv THEN EnvPtr(f, e + 1)
            ELSE IF e = f.nenv THEN 0
            ELSE IF x \div 2 < Len(f.aux)
                 THEN IF x % 2 = 0 THEN f.aux[x \div 2 + 1]
                                   ELSE OldAuxValue(x \div 2 + 1)
            ELSE IF x % 2 = 0 THEN AT_NULL ELSE 0]

\* libc's environ: the address of envp[0].
Environ(f) == StackBase + WordSize * (f.n + 2)

\* The frames the kernel builds: the strings lie above the frame.
RichFrames ==
    {Frame(n, ne, aux, FALSE) : n \in 0..MaxArgs, ne \in 0..MaxEnv,
                                aux \in SeqsUpTo(AuxKeys, MaxAux)}

FewFrames ==
    {Frame(n, 0, <<AT_PHDR, AT_PAGESZ>>, FALSE) : n \in 1..2}

\* The frames a harness can build: the argument strings lie anywhere.
SynthFrames ==
    {Frame(n, ne, aux, low) : n \in 0..MaxArgs, ne \in 0..MaxEnv,
                              aux \in SeqsUpTo(AuxKeys, MaxAux), low \in BOOLEAN}

---------------------------------------------------------------------------
(* Reading and writing the stack frame by address.                         *)

Mapped(m, a) ==
    /\ a >= StackBase
    /\ (a - StackBase) % WordSize = 0
    /\ (a - StackBase) \div WordSize < Len(m)

Rd(m, a) == m[(a - StackBase) \div WordSize + 1]

Wr(m, a, v) == [m EXCEPT ![(a - StackBase) \div WordSize + 1] = v]


---------------------------------------------------------------------------
(* get_initial_stack: the three scans over the frame.                      *)
(* A scan that leaves the frame reads memory the model does not hold; the  *)
(* result is marked not ok and the step that ran it faults.                *)

\* `while !( *auxv).is_null() { auxv = auxv.add(1); envp_len += 1; }` and the
\* step over the NULL: the address of auxv[0] and the length of envp.
RECURSIVE ScanEnvp(_, _, _)
ScanEnvp(m, p, len) ==
    IF ~Mapped(m, p) THEN [ok |-> FALSE, ptr |-> p, len |-> len]
    ELSE IF Rd(m, p) = 0 THEN [ok |-> TRUE, ptr |-> p + WordSize, len |-> len + 1]
    ELSE ScanEnvp(m, p + WordSize, len + 1)

\* `while ( *auxv_iter).key != AT_NULL { ... }; len + 1`: an ElfAuxv is two words.
RECURSIVE ScanAuxv(_, _, _)
ScanAuxv(m, p, len) ==
    IF ~Mapped(m, p) THEN [ok |-> FALSE, len |-> len]
    ELSE IF Rd(m, p) = AT_NULL THEN [ok |-> TRUE, len |-> len + 1]
    ELSE ScanAuxv(m, p + 2 * WordSize, len + 1)

\* The mutant of ScanStart: the scan starts on the NULL that ends argv.
ScanStartOnNull(envp) == envp - WordSize

\* `envp.sub(2)`: the word below the NULL that ends argv.
ScanStart(envp) == envp - 2 * WordSize

\* `while *argc != argv_len { argc = argc.sub(1); argv_len += 1; }`
RECURSIVE ScanArgc(_, _, _)
ScanArgc(m, p, len) ==
    IF ~Mapped(m, p) THEN [ok |-> FALSE, ptr |-> p, len |-> len]
    ELSE IF Rd(m, p) = len THEN [ok |-> TRUE, ptr |-> p, len |-> len]
    ELSE ScanArgc(m, p - WordSize, len + 1)

get_initial_stack(m, envp) ==
    LET e == ScanEnvp(m, envp, 0)
        x == ScanAuxv(m, e.ptr, 0)
        a == ScanArgc(m, ScanStart(envp), 0)
    IN  [ok       |-> e.ok /\ x.ok /\ a.ok,
         argc     |-> a.ptr,
         argv     |-> a.ptr + WordSize,      \* argc.add(1)
         argv_len |-> a.len + 1,             \* argv_len += 1
         envp     |-> envp,
         envp_len |-> e.len,
         auxv     |-> e.ptr,
         auxv_len |-> x.len]

---------------------------------------------------------------------------
(* setup_auxv.                                                             *)

\* The mutant of AuxValue: the values of AT_PHNUM and AT_PHENT swapped.
AuxValueSwapped(key, old, phdr, n, phentsize, e) ==
    IF key = AT_PHDR THEN phdr
    ELSE IF key = AT_PHNUM THEN phentsize
    ELSE IF key = AT_PHENT THEN n
    ELSE IF key = AT_BASE THEN 0
    ELSE IF key = AT_ENTRY THEN e
    ELSE old

\* The `match aux.key` of setup_auxv: the value an entry holds afterwards.
AuxValue(key, old, phdr, n, phentsize, e) ==
    IF key = AT_PHDR THEN phdr
    ELSE IF key = AT_PHNUM THEN n
    ELSE IF key = AT_PHENT THEN phentsize
    ELSE IF key = AT_BASE THEN 0
    ELSE IF key = AT_ENTRY THEN e
    ELSE old

\* `for aux in auxv`: every entry of the slice, the AT_NULL one included.
setup_auxv(m, auxv, auxv_len, phdr, n, e) ==
    [w \in 1..Len(m) |->
        LET a == StackBase + WordSize * (w - 1)
            k == (a - auxv) \div (2 * WordSize)
        IN  IF a >= auxv /\ k < auxv_len /\ (a - auxv) % (2 * WordSize) = WordSize
            THEN AuxValue(m[w - 1], m[w], phdr, n, SIZEOF_PHDR, e)
            ELSE m[w]]

---------------------------------------------------------------------------
(* process_elf: the header loop.                                           *)

\* The mutant of IsLoad: a DYNAMIC header is taken for a loadable one too.
IsLoadOrDynamic(h) == h.p_type \in {PT_LOAD, PT_DYNAMIC}

\* `PT_LOAD => load_phdr = Some(h)`
IsLoad(h) == h.p_type = PT_LOAD

\* `PT_TLS | PT_DYNAMIC => phdrs.push(...)`
IsCopied(h) == h.p_type \in {PT_TLS, PT_DYNAMIC}

\* load_phdr after the loop: the last LOAD header, if any.
LastLoad(hs) ==
    LET idx == {i \in 1..Len(hs) : IsLoad(hs[i])}
    IN  IF idx = {} THEN <<>>
        ELSE <<hs[CHOOSE i \in idx : \A j \in idx : j <= i]>>

\* phdrs after the loop.
Filtered(hs) == SelectSeq(hs, IsCopied)

---------------------------------------------------------------------------
(* process_elf: writing into the image.                                    *)

\* The image with `bytes` stored from offset lo on (the part inside it).
WriteImage(img, lo, bytes) ==
    [i \in 1..Len(img) |->
        IF i - 1 >= lo /\ i - 1 < lo + Len(bytes) THEN bytes[i - lo] ELSE img[i]]

\* raw_file[lo..hi]
Slice(f, lo, hi) == [i \in 1..(hi - lo) |-> f[lo + i]]

\* The bytes of the copied headers: SIZEOF_PHDR per header, told apart by type.
PhdrBytes(hs) ==
    [i \in 1..(SIZEOF_PHDR * Len(hs)) |->
        (1000 * (hs[(i - 1) \div SIZEOF_PHDR + 1].p_type % 256)) + ((i - 1) % SIZEOF_PHDR)]

\* What a store of the bytes [lo, hi) from the address `mapping` on can do.
\* Nothing is stored for an empty range.  Inside the region the store works
\* iff the pages were requested writable, and faults otherwise.  Outside the
\* region (or with no region at all: mapping = MAP_FAILED) the store is
\* undefined: it faults, or it lands in whatever memory lies there ("wild").
\* The initial stack frame is taken not to lie there: the only memory the
\* model keeps besides the image is left as it is by a wild store.
StoreOutcomes(map, img, prot, lo, hi) ==
    IF lo >= hi THEN {"none"}
    ELSE IF map = MAP_FAILED THEN {"fault", "wild"}
    ELSE IF hi <= Len(img)
         THEN IF Bit(prot, PROT_WRITE) THEN {"stored"} ELSE {"fault"}
    ELSE IF lo < Len(img) /\ ~Bit(prot, PROT_WRITE) THEN {"fault"}
    ELSE {"fault", "wild"}

\* The position of a step in main / process_elf.
PcOrder == <<"main", "select", "mmap", "copy", "phdrs", "stack", "auxv", "argv",
             "exec", "shelf">>
Pos(p) == CHOOSE i \in 1..Len(PcOrder) : PcOrder[i] = p
\* Step p has run to its end.
Past(p) == Pos(pc) > Pos(p)


---------------------------------------------------------------------------
(* The state at process start.                                             *)

Start(e, f, at) ==
    /\ elf = e
    /\ frame = f
    /\ mem = BuildMem(f)
    /\ pc = at
    /\ status = "running"
    /\ diag = ""
    /\ load_phdr = <<>>
    /\ phdrs = <<>>
    /\ mmapReq = <<>>
    /\ mapping = <<>>
    /\ image = <<>>
    /\ writes = {}
    /\ entry = 0
    /\ phdrs_ptr = 0
    /\ phnum = 0
    /\ stack = <<>>
    /\ regs = <<>>

\* Any descriptor on a few frames, or any frame under a few descriptors.
Init ==
    \/ \E e \in RichElfs, f \in FewFrames : Start(e, f, "main")
    \/ \E e \in FewElfs, f \in RichFrames : Start(e, f, "main")

Ended(st, msg) ==
    /\ status' = st
    /\ diag' = msg
    /\ pc' = pc

---------------------------------------------------------------------------
(* main.                                                                   *)

\* std::env::args() has the kernel's argc elements.  Reading and parsing the
\* file are the work of std and goblin: their outcome is an input here.
Main ==
    /\ pc = "main" /\ status = "running"
    /\ IF frame.n < 2
       THEN Ended("exited", "Usage: shelf-loader-poc <SHELF> <ARGS>")
       ELSE \E outcome \in {"error", "other", "elf"} :
              CASE outcome = "error" -> Ended("exited", "error")
                [] outcome = "other" -> Ended("exited", "filetype not supported")
                [] outcome = "elf" -> /\ pc' = "select"
                                      /\ UNCHANGED <<status, diag>>
    /\ UNCHANGED <<elf, frame, mem, load_phdr, phdrs, mmapReq, mapping, image,
                   writes, entry, phdrs_ptr, phnum, stack, regs>>

---------------------------------------------------------------------------
(* process_elf.                                                            *)

\* The loop over elf.program_headers and `load_phdr.expect(...)`.
SelectHeaders ==
    /\ pc = "select" /\ status = "running"
    /\ load_phdr' = LastLoad(elf.program_headers)
    /\ phdrs' = Filtered(elf.program_headers)
    /\ IF load_phdr' = <<>>
       THEN Ended("panicked", "No loadable segments")
       ELSE pc' = "mmap" /\ UNCHANGED <<status, diag>>
    /\ UNCHANGED <<elf, frame, mem, mmapReq, mapping, image, writes, entry,
                   phdrs_ptr, phnum, stack, regs>>

\* The request `mmap(NULL, mem_size + load_vaddr, load_perms, ...)`: p_flags
\* is handed over as the protection, bit for bit.
MmapRequest(h) == [len |-> h.p_memsz + h.p_vaddr, prot |-> h.p_flags]

\* mmap: a request of length 0 fails (EINVAL), any other may fail (ENOMEM);
\* the result is not looked at.  A region that is granted is zero-filled.
Mmap ==
    /\ pc = "mmap" /\ status = "running"
    /\ LET req == MmapRequest(load_phdr[1])
       IN  /\ mmapReq' = <<req>>
           /\ \E r \in (IF req.len = 0 THEN {MAP_FAILED} ELSE {MapBase, MAP_FAILED}) :
                /\ mapping' = <<r>>
                /\ image' = IF r = MAP_FAILED THEN <<>> ELSE [i \in 1..req.len |-> 0]
    /\ pc' = "copy"
    /\ UNCHANGED <<elf, frame, mem, status, diag, load_phdr, phdrs, writes, entry,
                   phdrs_ptr, phnum, stack, regs>>

\* `&raw_file[load_offset..load_offset + load_filesz]` (a checked slice),
\* copy_nonoverlapping to mapping.add(load_vaddr), and the entry address.
CopySegment ==
    /\ pc = "copy" /\ status = "running"
    /\ LET h == load_phdr[1]
           lo == h.p_vaddr
           hi == h.p_vaddr + h.p_filesz
       IN  IF h.p_offset + h.p_filesz > Len(raw_file)
           THEN /\ Ended("panicked", "range end index out of range")
                /\ UNCHANGED <<image, writes, entry>>
           ELSE \E o \in StoreOutcomes(mapping[1], image, mmapReq[1].prot, lo, hi) :
                  /\ writes' = IF o \in {"stored", "wild"}
                               THEN writes \cup {[lo |-> lo, hi |-> hi]} ELSE writes
                  /\ image' = IF o \in {"stored", "wild"}
                              THEN WriteImage(image, lo,
                                     Slice(raw_file, h.p_offset, h.p_offset + h.p_filesz))
                              ELSE image
                  /\ IF o = "fault"
                     THEN Ended("faulted", "SIGSEGV") /\ UNCHANGED entry
                     ELSE /\ entry' = mapping[1] + elf.entry
                          /\ pc' = "phdrs"
                          /\ UNCHANGED <<status, diag>>
    /\ UNCHANGED <<elf, frame, mem, load_phdr, phdrs, mmapReq, mapping, phdrs_ptr,
                   phnum, stack, regs>>

\* "Copy in the phdrs": phnum headers stored at mapping.add(e_phoff).
CopyPhdrs ==
    /\ pc = "phdrs" /\ status = "running"
    /\ LET lo == elf.e_phoff
           hi == elf.e_phoff + SIZEOF_PHDR * Len(phdrs)
       IN  \E o \in StoreOutcomes(mapping[1], image, mmapReq[1].prot, lo, hi) :
             /\ writes' = IF o \in {"stored", "wild"}
                          THEN writes \cup {[lo |-> lo, hi |-> hi]} ELSE writes
             /\ image' = IF o \in {"stored", "wild"}
                         THEN WriteImage(image, lo, PhdrBytes(phdrs)) ELSE image
             /\ IF o = "fault"
                THEN Ended("faulted", "SIGSEGV") /\ UNCHANGED <<phnum, phdrs_ptr>>
                ELSE /\ phnum' = Len(phdrs)
                     /\ phdrs_ptr' = mapping[1] + elf.e_phoff
                     /\ pc' = "stack"
                     /\ UNCHANGED <<status, diag>>
    /\ UNCHANGED <<elf, frame, mem, load_phdr, phdrs, mmapReq, mapping, entry,
                   stack, regs>>

\* `let mut stack = get_initial_stack();`
GetStack ==
    /\ pc = "stack" /\ status = "running"
    /\ LET s == get_initial_stack(mem, Environ(frame))
       IN  IF s.ok
           THEN /\ stack' = <<s>>
                /\ pc' = "auxv"
                /\ UNCHANGED <<status, diag>>
           ELSE Ended("faulted", "SIGSEGV") /\ UNCHANGED stack
    /\ UNCHANGED <<elf, frame, mem, load_phdr, phdrs, mmapReq, mapping, image,
                   writes, entry, phdrs_ptr, phnum, regs>>

\* `setup_auxv(stack.auxv, phdrs, phnum, entry);`
SetupAuxv ==
    /\ pc = "auxv" /\ status = "running"
    /\ mem' = setup_auxv(mem, stack[1].auxv, stack[1].auxv_len, phdrs_ptr, phnum, entry)
    /\ pc' = "argv"
    /\ UNCHANGED <<elf, frame, status, diag, load_phdr, phdrs, mmapReq, mapping,
                   image, writes, entry, phdrs_ptr, phnum, stack, regs>>

\* The mutant of NewArgc: the NULL that ends argv is counted.
NewArgcWithNull(argv_len) == argv_len

\* `*stack.argc = stack.argv.len() - 1`: "argc doesn't include the NULL".
NewArgc(argv_len) == argv_len - 1

\* "Edit argv by passing argv[1..] to the SHELF".
EditArgv ==
    /\ pc = "argv" /\ status = "running"
    /\ LET s == stack[1]
           t == [s EXCEPT !.argv = s.argv + WordSize,
                          !.argv_len = s.argv_len - 1,
                          !.argc = s.argc + WordSize]
       IN  /\ stack' = <<t>>
           /\ mem' = Wr(mem, t.argc, NewArgc(t.argv_len))
    /\ pc' = "exec"
    /\ UNCHANGED <<elf, frame, status, diag, load_phdr, phdrs, mmapReq, mapping,
                   image, writes, entry, phdrs_ptr, phnum, regs>>

\* Stack::as_ptr
as_ptr(s) == s.argc

\* exec_shelf: `mov rsp, {stack.as_ptr()}; jmp {entry}`; never returns.
ExecShelf ==
    /\ pc = "exec" /\ status = "running"
    /\ regs' = <<[rsp |-> as_ptr(stack[1]), rip |-> entry]>>
    /\ status' = "transferred"
    /\ pc' = "shelf"
    /\ UNCHANGED <<elf, frame, mem, diag, load_phdr, phdrs, mmapReq, mapping,
                   image, writes, entry, phdrs_ptr, phnum, stack>>

Next ==
    \/ Main
    \/ SelectHeaders
    \/ Mmap
    \/ CopySegment
    \/ CopyPhdrs
    \/ GetStack
    \/ SetupAuxv
    \/ EditArgv
    \/ ExecShelf

Spec == Init /\ [][Next]_vars

---------------------------------------------------------------------------
(* get_initial_stack on its own: run on a frame of any argument count,     *)
(* those main never lets through included.                                 *)

InitScan == \E e \in FewElfs, f \in SynthFrames : Start(e, f, "stack")

NextScan == GetStack

SpecScan == InitScan /\ [][NextScan]_vars


---------------------------------------------------------------------------
(* What the properties below speak of.                                     *)

\* The frame as the kernel built it, before the loader touched it.
Mem0 == BuildMem(frame)
\* The address of auxv[0] in the frame the kernel built.
Auxv0 == StackBase + WordSize * (frame.n + 2 + frame.nenv + 1)

TypesOf(e) == {e.program_headers[i].p_type : i \in 1..Len(e.program_headers)}
LoadsOf(e) == {i \in 1..Len(e.program_headers) : e.program_headers[i].p_type = PT_LOAD}
\* The number of TLS and DYNAMIC headers of the descriptor.
CopiedCount(e) ==
    Cardinality({i \in 1..Len(e.program_headers) :
                    e.program_headers[i].p_type \in {PT_TLS, PT_DYNAMIC}})

\* process_elf was entered and the run ended in step p.
EndedIn(p) == pc = p /\ status # "running"

\* mmap granted the region asked for.
Granted == mapping = <<MapBase>>
\* A written range lies inside the region asked for.
InRegion(w) == w.lo >= 0 /\ w.hi <= mmapReq[1].len
\* The run has been free of undefined behaviour so far: the region was
\* granted and every store through it stayed inside it.
Sound == Granted /\ \A w \in writes : InRegion(w)

---------------------------------------------------------------------------
(* C1: for a frame of N >= 2 arguments, the stack pointer handed to        *)
(* exec_shelf addresses a word holding N-1, followed by the original       *)
(* argv[1..N-1] in order, the NULL, the environment pointers as they were  *)
(* and their NULL, and the auxiliary vector with its keys in order up to   *)
(* AT_NULL, which ends the frame: all contiguous.                          *)
C1_DroppedFirstArgument ==
    status = "transferred" =>
        LET sp == regs[1].rsp
            N == frame.n
            env == sp + WordSize * (N + 1)
            aux == env + WordSize * (frame.nenv + 1)
        IN  /\ N >= 2
            /\ Mapped(mem, sp)
            /\ Rd(mem, sp) = N - 1
            /\ \A i \in 1..(N - 1) :
                   Rd(mem, sp + WordSize * i) = Rd(Mem0, StackBase + WordSize * (1 + i))
            /\ Rd(mem, sp + WordSize * N) = 0
            /\ env = Environ(frame)
            /\ \A j \in 0..frame.nenv : Rd(mem, env + WordSize * j) = Rd(Mem0, env + WordSize * j)
            /\ Rd(mem, env + WordSize * frame.nenv) = 0
            /\ \A k \in 1..Len(frame.aux) :
                   Rd(mem, aux + 2 * WordSize * (k - 1)) = frame.aux[k]
            /\ Rd(mem, aux + 2 * WordSize * Len(frame.aux)) = AT_NULL
            /\ aux + 2 * WordSize * (Len(frame.aux) + 1) = StackBase + WordSize * Len(mem)

C1_Witness ==
    /\ status = "transferred"
    /\ frame.n = 3
    /\ frame.nenv = 1
    /\ Len(frame.aux) = 2
    /\ Rd(mem, regs[1].rsp) = 2

(* C2: once setup_auxv has run, every entry of the vector has the key it   *)
(* had; an AT_PHDR entry holds mapping + e_phoff, AT_PHNUM the number of   *)
(* copied (TLS and DYNAMIC) headers, AT_PHENT the 64-bit header size,      *)
(* AT_BASE zero, AT_ENTRY mapping + e_entry; any other entry holds the     *)
(* value it had; AT_NULL is still the last entry, at its index.            *)
C2_AuxvRewritten ==
    Past("auxv") =>
        /\ Len(mem) = Len(Mem0)
        /\ \A k \in 1..(Len(frame.aux) + 1) :
              LET ka == Auxv0 + 2 * WordSize * (k - 1)
                  key == Rd(mem, ka)
                  val == Rd(mem, ka + WordSize)
              IN  /\ key = Rd(Mem0, ka)
                  /\ key = IF k <= Len(frame.aux) THEN frame.aux[k] ELSE AT_NULL
                  /\ key = AT_PHDR => val = mapping[1] + elf.e_phoff
                  /\ key = AT_PHNUM => val = CopiedCount(elf)
                  /\ key = AT_PHENT => val = 56
                  /\ key = AT_BASE => val = 0
                  /\ key = AT_ENTRY => val = mapping[1] + elf.entry
                  /\ key \notin {AT_PHDR, AT_PHNUM, AT_PHENT, AT_BASE, AT_ENTRY}
                        => val = Rd(Mem0, ka + WordSize)

C2_Witness ==
    /\ pc = "argv"
    /\ frame.aux = <<AT_PAGESZ, AT_PHNUM>>
    /\ mapping = <<MapBase>>
    /\ CopiedCount(elf) = 1
    /\ Rd(mem, Auxv0 + 3 * WordSize) = 1

\* The scan has run and ended on the argc cell of a frame of N arguments.
ScanFoundArgc ==
    /\ status # "faulted"
    /\ stack # <<>> =>
          /\ stack[1].argc = StackBase
          /\ Rd(mem, stack[1].argc) = frame.n
          /\ stack[1].argv_len - 1 = frame.n
          /\ stack[1].argv = StackBase + WordSize

\* An argument pointer reads as the number of words the scan has stepped
\* back when it comes to it: argv[N-1-k] = k, for a k in 1..N-1.
PointerReadsAsCount(f) ==
    \E k \in 1..(f.n - 1) : Rd(BuildMem(f), StackBase + WordSize * (f.n - k)) = k

(* C3, as stated: on any frame built with argument count N (0, 1 or more)  *)
(* the backward scan of get_initial_stack ends on the argc cell: the argc  *)
(* pointer is the cell's address, the cell holds N, the argv slice starts  *)
(* one word above it and has N+1 elements.                                 *)
C3_Claim == ScanFoundArgc

(* C3, amended: the same, on any such frame none of whose argument         *)
(* pointers reads as the number of words the scan has stepped back when    *)
(* it comes to it.                                                         *)
C3_ScanRecoversArgc == ~PointerReadsAsCount(frame) => ScanFoundArgc

C3_Witness ==
    /\ stack # <<>>
    /\ frame.n = 3
    /\ frame.low
    /\ ~PointerReadsAsCount(frame)
    /\ stack[1].argv_len = 4

(* C7: with no LOAD header the run ends in the header loop with the panic  *)
(* "No loadable segments"; no mapping is requested, nothing is written to  *)
(* an image, the stack frame is as the kernel built it, no transfer.       *)
C7_NoLoadAborts ==
    LoadsOf(elf) = {} =>
        /\ pc \in {"main", "select"}
        /\ EndedIn("select") => status = "panicked" /\ diag = "No loadable segments"
        /\ mmapReq = <<>>
        /\ mapping = <<>>
        /\ image = <<>>
        /\ writes = {}
        /\ mem = Mem0
        /\ stack = <<>>
        /\ regs = <<>>

C7_Witness ==
    /\ LoadsOf(elf) = {}
    /\ Len(elf.program_headers) = 2
    /\ EndedIn("select")
    /\ status = "panicked"

---------------------------------------------------------------------------
(* The claims the code does not meet, as stated.                           *)

\* The one LOAD header of a descriptor that has just one.
TheLoad(e) == e.program_headers[CHOOSE i \in LoadsOf(e) : TRUE]

WellFormedSingleLoad(e) ==
    /\ Cardinality(LoadsOf(e)) = 1
    /\ TheLoad(e).p_filesz <= TheLoad(e).p_memsz
    /\ TheLoad(e).p_offset + TheLoad(e).p_filesz <= Len(raw_file)

(* C4: for a descriptor with a single well-formed LOAD segment whose       *)
(* region mmap granted, once the segment-mapping step is over the region   *)
(* has memsz + vaddr bytes, its bytes [vaddr, vaddr + filesz) are the      *)
(* file's bytes [offset, offset + filesz), and entry is the region's base  *)
(* + e_entry.                                                              *)
C4_Claim ==
    (WellFormedSingleLoad(elf) /\ Granted /\ (pc = "phdrs" \/ EndedIn("copy"))) =>
        LET h == TheLoad(elf)
        IN  /\ Len(image) = h.p_memsz + h.p_vaddr
            /\ \A i \in 1..h.p_filesz : image[h.p_vaddr + i] = raw_file[h.p_offset + i]
            /\ entry = mapping[1] + elf.entry

(* C5: the region is requested readable iff the segment is readable,       *)
(* writable iff it is writable, executable iff it is executable.           *)
C5_Claim ==
    (mmapReq # <<>> /\ Granted) =>
        /\ Bit(mmapReq[1].prot, PROT_READ) <=> Bit(load_phdr[1].p_flags, PF_R)
        /\ Bit(mmapReq[1].prot, PROT_WRITE) <=> Bit(load_phdr[1].p_flags, PF_W)
        /\ Bit(mmapReq[1].prot, PROT_EXEC) <=> Bit(load_phdr[1].p_flags, PF_X)

(* C6: with no GNU_STACK header process_elf fails before any stack         *)
(* discovery or editing and before the transfer (stated of the runs free   *)
(* of undefined behaviour, where nothing else can end the run).            *)
C6_Claim ==
    (PT_GNU_STACK \notin TypesOf(elf) /\ Sound) =>
        /\ stack = <<>>
        /\ mem = Mem0
        /\ regs = <<>>

(* C8: once mmap has failed nothing is written through the mapping, the    *)
(* stack frame is not edited and control is not transferred.               *)
C8_Claim ==
    mapping = <<MAP_FAILED>> =>
        /\ writes = {}
        /\ mem = Mem0
        /\ regs = <<>>

(* C9: the argc cell of the original frame being 16-byte aligned, so is    *)
(* the stack pointer handed to exec_shelf (stated of the runs free of      *)
(* undefined behaviour).                                                   *)
C9_Claim ==
    (status = "transferred" /\ Sound /\ StackBase % 16 = 0) => regs[1].rsp % 16 = 0

(* C10: every range process_elf writes into the region it was granted      *)
(* lies inside [0, p_memsz + p_vaddr).                                     *)
C10_Claim ==
    Granted => \A w \in writes : InRegion(w)

=============================================================================
